---- MODULE Spec2Model ----
(***************************************************************************)
(* Model of src/travel_time_osrm_ch.py: class TravelTimeOSRMCH, a client   *)
(* of the OSRM table service.  Each of the three methods builds a request, *)
(* performs one blocking httpclient.get, parses the JSON body and derives  *)
(* a travel time in hours.                                                 *)
(*                                                                         *)
(* A call is one atomic action: the method runs synchronously from its     *)
(* first line to its return or to the exception that leaves it.  The       *)
(* arguments of the calls and the durations the table service knows are    *)
(* drawn by Init; the outcome of the HTTP exchange (network failure,       *)
(* status code, kind of body) is drawn by every call.                      *)
(***************************************************************************)
EXTENDS Integers, Sequences, FiniteSets

VARIABLES
    longlats,     \* the MANY argument: sources_longlats / destinations_longlats
    longlat_a,    \* the ONE argument: destination_longlat (many-to-one), source_longlat (others)
    longlat_b,    \* destination_longlat of one-to-one
    entries,      \* the durations the table service answers with, in request order
    op,           \* the method of the last call
    response,     \* the outcome of the last call's HTTP exchange
    request,      \* the last request handed to httpclient.get
    n_requests,   \* number of HTTP requests put on the wire so far
    calls,        \* number of method calls made so far
    result        \* what the last call gave its caller: a tuple or an exception

vars == <<longlats, longlat_a, longlat_b, entries, op, response, request,
          n_requests, calls, result>>

----------------------------------------------------------------------------
(* Bounds of the model *)

\* longest list of sources_longlats / destinations_longlats
MaxN == 3

\* longest sequence of calls
MaxCalls == 2

----------------------------------------------------------------------------
(* Program constants *)

\* sys.maxsize, the initial travel_time of the scan.  It is 2^63-1 on a
\* 64-bit CPython and 2^31-1 on a 32-bit one; the 32-bit value is the one
\* the model checker's integers can hold.
maxsize == 2147483647

\* seconds per hour, the divisor of "travel_time / 3600"
SecondsPerHour == 3600

\* class attribute url = "http://" + ip_address + ":" + port + "/table/v1/driving/"
url == "http://127.0.0.1:5001/table/v1/driving/"

\* class attribute headers; defined on the class, read by no method
headers == [name \in {"Content-Type"} |-> "application/json"]

----------------------------------------------------------------------------
(* Values *)

\* a JSON value of the durations matrix: a number of seconds, or null
Num(n) == [t |-> "number", v |-> n]
Null == [t |-> "null", v |-> 0]

\* the i-th coordinate pair [longitude, latitude] used as an argument
Coord(i) == <<10 + i, 50 + i>>

\* "no coordinate": the placeholder of a result that carries none
NoCoord == <<0, 0>>

\* the durations a response may hold
Durations == {Null, Num(-1), Num(0), Num(50), Num(100), Num(1800), Num(maxsize)}

\* the durations of the responses of the call-sequence specification
FewDurations == {Null, Num(0), Num(50)}

\* the lists passed as the MANY argument: non-empty, pairwise distinct pairs
Lists == {[i \in 1..n |-> Coord(i)] : n \in 1..MaxN}

\* the pairs passed as a ONE argument: one outside the list, one inside it
Singles == {Coord(0), Coord(1)}

\* sequences over S of a length in lens
SeqsOf(S, lens) == UNION {[1..n -> S] : n \in lens}

\* outcomes of one HTTP exchange
StatusCodes == {200, 400}
Texts == {"table", "no_durations", "not_json"}
Responses ==
    {[net |-> "fail", status_code |-> 0, text |-> "none"]}
    \cup {[net |-> "ok", status_code |-> s, text |-> x] : s \in StatusCodes, x \in Texts}

NoResponse == [net |-> "none", status_code |-> 0, text |-> "none"]
NoRequest == [method |-> "none", url |-> "", data_obj |-> <<>>, ending_url |-> "",
              headers |-> <<>>]
NoResult == [kind |-> "none", error |-> "", travel_time |-> <<0, 1>>,
             first |-> NoCoord, second |-> NoCoord]

Raised(e) == [kind |-> "raised", error |-> e, travel_time |-> <<0, 1>>,
              first |-> NoCoord, second |-> NoCoord]
Returned(t, c1, c2) == [kind |-> "returned", error |-> "", travel_time |-> t,
                        first |-> c1, second |-> c2]

----------------------------------------------------------------------------
(* Python helpers *)

Abs(n) == IF n < 0 THEN -n ELSE n

RECURSIVE GCD(_, _)
GCD(a, b) == IF b = 0 THEN a ELSE GCD(b, a % b)

\* a quotient n / d, d > 0, in lowest terms: <<numerator, denominator>>
Quotient(n, d) ==
    LET g == GCD(Abs(n), d) IN <<n \div g, d \div g>>

\* list[i] without the wrap-around of negative indices
PyIndexNoWrap(list, i) ==
    IF 0 <= i /\ i < Len(list) THEN [ok |-> TRUE, value |-> list[i + 1]]
    ELSE [ok |-> FALSE, value |-> NoCoord]

\* list[i] of Python: a negative index counts from the end, an index out of
\* range raises IndexError
PyIndex(list, i) ==
    LET n == Len(list) IN
    IF 0 <= i /\ i < n THEN [ok |-> TRUE, value |-> list[i + 1]]
    ELSE IF -n <= i /\ i < 0 THEN [ok |-> TRUE, value |-> list[n + i + 1]]
    ELSE [ok |-> FALSE, value |-> NoCoord]

\* data: one "lon,lat;" per location
RECURSIVE Data(_)
Data(locations) ==
    IF locations = <<>> THEN <<>>
    ELSE <<[tok |-> "lon,lat", val |-> Head(locations)], [tok |-> ";", val |-> NoCoord]>>
         \o Data(Tail(locations))

\* data.rstrip(';')
RECURSIVE rstrip(_)
rstrip(data) ==
    IF data # <<>> /\ data[Len(data)].tok = ";"
    THEN rstrip(SubSeq(data, 1, Len(data) - 1))
    ELSE data

\* request = self.url + data_obj + ending_url, handed to httpclient.get(request)
\* with no other argument: the call names no headers
BuildRequest(locations, ending_url) ==
    [method |-> "GET", url |-> url, data_obj |-> rstrip(Data(locations)),
     ending_url |-> ending_url, headers |-> <<>>]

\* a get that sends the request a second time when the network fails
httpclient_get_retry(n, resp) == IF resp.net = "fail" THEN n + 2 ELSE n + 1

\* httpclient.get(request): the requests on the wire after it, n before it
httpclient_get(n, resp) == n + 1

----------------------------------------------------------------------------
(* The table service *)

\* the durations matrix of a response with a durations field: one row per
\* source and one column per destination of the request
Table(ending_url, es) ==
    IF ending_url = "?destinations=0&skip_waypoints=true"
    THEN [i \in 1..Len(es) |-> <<es[i]>>]
    ELSE IF ending_url = "?sources=0&skip_waypoints=true"
    THEN <<es>>
    ELSE <<SubSeq(es, 1, 1)>>

\* a parse that reads a durations matrix out of every JSON body
json_durations_lenient(resp, ending_url, es) ==
    IF resp.text = "not_json" THEN [error |-> "JSONDecodeError", durations |-> <<>>]
    ELSE [error |-> "", durations |-> Table(ending_url, es)]

\* json.loads(response.text) followed by response_json['durations']
json_durations(resp, ending_url, es) ==
    IF resp.text = "not_json" THEN [error |-> "JSONDecodeError", durations |-> <<>>]
    ELSE IF resp.text = "no_durations" THEN [error |-> "KeyError", durations |-> <<>>]
    ELSE [error |-> "", durations |-> Table(ending_url, es)]

----------------------------------------------------------------------------
(* The scan for the shortest travel time *)

\* a loop body that saves idx instead of idx - 1
SelectNoShift(acc, idx, duration) ==
    IF duration.t = "null" THEN [acc EXCEPT !.error = "TypeError"]
    ELSE IF 0 < duration.v /\ duration.v < acc.travel_time
    THEN [travel_time |-> duration.v, saved_idx |-> idx, error |-> ""]
    ELSE acc

\* a loop body that skips None the way it skips zero
SelectSkipNull(acc, idx, duration) ==
    IF duration.t = "null" THEN acc
    ELSE IF 0 < duration.v /\ duration.v < acc.travel_time
    THEN [travel_time |-> duration.v, saved_idx |-> idx - 1, error |-> ""]
    ELSE acc

\* the body of the loop: "if 0 < duration < travel_time: ..."; comparing
\* None with an int raises TypeError
Select(acc, idx, duration) ==
    IF duration.t = "null" THEN [acc EXCEPT !.error = "TypeError"]
    ELSE IF 0 < duration.v /\ duration.v < acc.travel_time
    THEN [travel_time |-> duration.v, saved_idx |-> idx - 1, error |-> ""]
    ELSE acc

\* "for idx, obj in enumerate(...)" from the k-th element on
RECURSIVE Loop(_, _, _)
Loop(ds, k, acc) ==
    IF k > Len(ds) \/ acc.error # "" THEN acc
    ELSE Loop(ds, k + 1, Select(acc, k - 1, ds[k]))

\* travel_time = sys.maxsize; saved_idx = -1; then the loop
Scan(ds) == Loop(ds, 1, [travel_time |-> maxsize, saved_idx |-> -1, error |-> ""])

\* a conversion to minutes instead of hours
Minutes(seconds) == Quotient(seconds, 60)

\* travel_time / 3600
Hours(seconds) == Quotient(seconds, SecondsPerHour)

\* from the scan to the return statement
Finish(acc, list, single) ==
    IF acc.error # "" THEN Raised(acc.error)
    ELSE LET picked == PyIndex(list, acc.saved_idx) IN
         IF ~picked.ok THEN Raised("IndexError")
         ELSE Returned(Hours(acc.travel_time), picked.value, single)

----------------------------------------------------------------------------
(* The three methods: the request each builds and what it gives its caller *)

get_travel_time_many_to_one(sources_longlats, destination_longlat, resp) ==
    LET ending_url == "?destinations=0&skip_waypoints=true"
        req == BuildRequest(<<destination_longlat>> \o sources_longlats, ending_url)
        json == json_durations(resp, ending_url, entries)
        column == [i \in 1..Len(json.durations) |-> json.durations[i][1]]
    IN [request |-> req,
        result |-> IF resp.net = "fail" THEN Raised("ConnectionError")
                   ELSE IF json.error # "" THEN Raised(json.error)
                   ELSE Finish(Scan(column), sources_longlats, destination_longlat)]

get_travel_time_one_to_many(source_longlat, destinations_longlats, resp) ==
    LET ending_url == "?sources=0&skip_waypoints=true"
        req == BuildRequest(<<source_longlat>> \o destinations_longlats, ending_url)
        json == json_durations(resp, ending_url, entries)
    IN [request |-> req,
        result |-> IF resp.net = "fail" THEN Raised("ConnectionError")
                   ELSE IF json.error # "" THEN Raised(json.error)
                   ELSE Finish(Scan(json.durations[1]), destinations_longlats,
                               source_longlat)]

get_travel_time_one_to_one(source_longlat, destination_longlat, resp) ==
    LET ending_url == "?sources=0&destinations=1&skip_waypoints=true"
        req == BuildRequest(<<source_longlat, destination_longlat>>, ending_url)
        json == json_durations(resp, ending_url, entries)
    IN [request |-> req,
        result |-> IF resp.net = "fail" THEN Raised("ConnectionError")
                   ELSE IF json.error # "" THEN Raised(json.error)
                   ELSE LET d == json.durations[1][1] IN
                        IF d.t = "null" THEN Raised("TypeError")
                        ELSE Returned(Hours(d.v), source_longlat, destination_longlat)]

----------------------------------------------------------------------------
(* State machine *)

\* a call of method m that ran as r under the HTTP outcome resp
Called(m, resp, r) ==
    /\ op' = m
    /\ response' = resp
    /\ request' = r.request
    /\ n_requests' = httpclient_get(n_requests, resp)
    /\ calls' = calls + 1
    /\ result' = r.result
    /\ UNCHANGED <<longlats, longlat_a, longlat_b, entries>>

many_to_one ==
    \E resp \in Responses :
        Called("many_to_one", resp, get_travel_time_many_to_one(longlats, longlat_a, resp))

one_to_many ==
    \E resp \in Responses :
        Called("one_to_many", resp, get_travel_time_one_to_many(longlat_a, longlats, resp))

one_to_one ==
    \E resp \in Responses :
        Called("one_to_one", resp, get_travel_time_one_to_one(longlat_a, longlat_b, resp))

\* the state before the first call, the durations drawn from D
InitWith(D) ==
    /\ longlats \in Lists
    /\ longlat_a \in Singles
    /\ longlat_b \in Singles
    /\ entries \in SeqsOf(D, {Len(longlats), Len(longlats) + 1})
    /\ op = "none"
    /\ response = NoResponse
    /\ request = NoRequest
    /\ n_requests = 0
    /\ calls = 0
    /\ result = NoResult

\* sequences of up to MaxCalls calls
Init == InitWith(FewDurations)

Next ==
    \/ calls < MaxCalls /\ many_to_one
    \/ calls < MaxCalls /\ one_to_many
    \/ calls < MaxCalls /\ one_to_one

Spec == Init /\ [][Next]_vars

\* a single call on every input
InitInputs == InitWith(Durations)

NextInputs ==
    \/ calls = 0 /\ many_to_one
    \/ calls = 0 /\ one_to_many
    \/ calls = 0 /\ one_to_one

SpecInputs == InitInputs /\ [][NextInputs]_vars

----------------------------------------------------------------------------
(* Vocabulary of the properties *)

N == Len(longlats)

ScanCall == op \in {"many_to_one", "one_to_many"}

\* the exchange succeeded and the body holds a durations matrix
GotTable == response.net = "ok" /\ response.text = "table"

\* the response holds the fixed location's own entry and one entry per candidate
WellFormed == Len(entries) = N + 1

Positive(e) == e.t = "number" /\ e.v > 0

NoNull(es) == \A k \in 1..Len(es) : es[k].t = "number"

\* the strictly positive seconds among the entries at the positions ks
PositiveAt(ks) == {entries[k].v : k \in {j \in ks : Positive(entries[j])}}

Least(S) == CHOOSE m \in S : \A x \in S : m <= x

\* the entries of the candidates: position i + 1 holds the entry of longlats[i]
CandidatePositions == 2..(N + 1)

\* the result is the tuple (seconds / 3600, longlats[i], longlat_a)
ReturnedFor(seconds, i) ==
    /\ result.kind = "returned"
    /\ result.travel_time = Quotient(seconds, 3600)
    /\ result.first = longlats[i]
    /\ result.second = longlat_a

----------------------------------------------------------------------------
(* Properties *)

\* C1: many-to-one, on a response of N+1 rows with at least one strictly
\* positive source entry, returns the least strictly positive source entry
\* divided by 3600, the source sources[i] that owns it, and the destination.
C1_MinimumOverSources ==
    (op = "many_to_one" /\ GotTable /\ WellFormed
        /\ PositiveAt(CandidatePositions) # {})
    => \E i \in 1..N :
          /\ Positive(entries[i + 1])
          /\ entries[i + 1].v = Least(PositiveAt(CandidatePositions))
          /\ ReturnedFor(entries[i + 1].v, i)

\* C2: one-to-many, on a response whose first row has at least one strictly
\* positive entry, returns the least strictly positive entry of row 0 divided
\* by 3600, the destination that entry belongs to, and the source.
C2_MinimumOverRow ==
    (op = "one_to_many" /\ GotTable /\ WellFormed
        /\ PositiveAt(1..(N + 1)) # {})
    => \E i \in 1..N :
          /\ Positive(entries[i + 1])
          /\ entries[i + 1].v = Least(PositiveAt(1..(N + 1)))
          /\ ReturnedFor(entries[i + 1].v, i)

\* C3 as stated: many-to-one, on a durations column of one strictly positive
\* entry per source in source order, returns the source at the position of
\* the least entry and that entry divided by 3600.
C3_OneEntryPerSource ==
    (op = "many_to_one" /\ GotTable /\ Len(entries) = N
        /\ \A k \in 1..N : Positive(entries[k]) /\ entries[k].v < maxsize)
    => \E i \in 1..N :
          /\ entries[i].v = Least(PositiveAt(1..N))
          /\ ReturnedFor(entries[i].v, i)

\* C3 amended: many-to-one, on a durations column that holds the
\* destination's own entry 0 first and then one strictly positive entry below
\* sys.maxsize per source in source order, returns the source at the first
\* position of the least source entry, that entry divided by 3600, and the
\* destination.
C3_DestinationFirst ==
    (op = "many_to_one" /\ GotTable /\ WellFormed /\ entries[1] = Num(0)
        /\ \A k \in CandidatePositions : Positive(entries[k]) /\ entries[k].v < maxsize)
    => \E i \in 1..N :
          /\ entries[i + 1].v = Least(PositiveAt(CandidatePositions))
          /\ \A j \in 1..(i - 1) : entries[j + 1].v > entries[i + 1].v
          /\ ReturnedFor(entries[i + 1].v, i)

\* C3 witness: sources [A, B, C] and the column [0, 100, 50, 1800] give B and
\* 50/3600 = 1/72 hours.
C3_Witness ==
    /\ op = "many_to_one" /\ GotTable
    /\ N = 3
    /\ entries = <<Num(0), Num(100), Num(50), Num(1800)>>
    /\ result.kind = "returned"
    /\ result.first = longlats[2]
    /\ result.travel_time = <<1, 72>>

\* C4: in many-to-one and one-to-many a zero or negative duration is never
\* selected: the returned travel time is no zero or negative duration divided
\* by 3600, and the returned coordinate is none whose duration in the
\* response is zero or negative.
C4_NeverNonPositive ==
    (ScanCall /\ GotTable /\ WellFormed /\ result.kind = "returned")
    => /\ \A k \in 1..(N + 1) :
             (entries[k].t = "number" /\ entries[k].v <= 0)
             => result.travel_time # Quotient(entries[k].v, 3600)
       /\ \A i \in 1..N :
             result.first = longlats[i] => Positive(entries[i + 1])

\* C5: one-to-one returns the value at row 0, column 0 of the durations
\* matrix divided by 3600, whatever its sign, with the source and the
\* destination as passed in, in that order.
C5_OneToOne ==
    (op = "one_to_one" /\ GotTable /\ entries[1].t = "number")
    => /\ result.kind = "returned"
       /\ result.travel_time = Quotient(entries[1].v, 3600)
       /\ result.first = longlat_a
       /\ result.second = longlat_b

\* C5 witness: 1800 seconds give 0.5 hours, source and destination distinct.
C5_Witness ==
    /\ op = "one_to_one" /\ GotTable
    /\ entries[1] = Num(1800)
    /\ longlat_a # longlat_b
    /\ result = Returned(<<1, 2>>, longlat_a, longlat_b)

C7_ContentTypeSent ==
    op # "none"
    => /\ "Content-Type" \in DOMAIN request.headers
       /\ request.headers["Content-Type"] = headers["Content-Type"]

\* C8: every call issues exactly one HTTP GET, so after any sequence of calls
\* the number of requests sent equals the number of calls made.
C8_OneRequestPerCall == n_requests = calls

\* C8 witness: a second call that failed on the network, after which two
\* requests have been sent.
C8_Witness ==
    /\ calls = 2
    /\ response.net = "fail"
    /\ result.kind = "raised"
    /\ n_requests = 2

\* C9 as stated: in many-to-one and one-to-many, when the scanned durations
\* hold no strictly positive value, the call returns sys.maxsize / 3600, the
\* last element of the candidate list and the fixed coordinate.
C9_SentinelReturned ==
    (ScanCall /\ GotTable /\ PositiveAt(1..Len(entries)) = {})
    => ReturnedFor(maxsize, N)

\* C9 amended: in many-to-one and one-to-many, when the scanned durations
\* hold no strictly positive value and no null, the call returns
\* sys.maxsize / 3600, the last element of the non-empty candidate list and
\* the fixed coordinate.
C9_SentinelWithoutNull ==
    (ScanCall /\ GotTable /\ PositiveAt(1..Len(entries)) = {} /\ NoNull(entries))
    => ReturnedFor(maxsize, N)

\* C9 witness: one-to-many over two or more destinations whose durations are
\* all zero or negative returns the last destination.
C9_Witness ==
    /\ op = "one_to_many" /\ GotTable /\ WellFormed
    /\ N >= 2
    /\ NoNull(entries) /\ PositiveAt(1..Len(entries)) = {}
    /\ result.kind = "returned"
    /\ result.first = longlats[N]
    /\ result.first # longlats[1]

\* C10: in many-to-one and one-to-many a null among the scanned durations, at
\* any position and whatever the other entries, makes the call fail.
C10_NullRaises ==
    (ScanCall /\ GotTable /\ ~NoNull(entries))
    => result = Raised("TypeError")

\* C10 witness: a null in the last position, after a strictly positive entry.
C10_Witness ==
    /\ op = "many_to_one" /\ GotTable /\ WellFormed
    /\ N >= 2
    /\ Positive(entries[2])
    /\ entries[N + 1] = Null
    /\ result = Raised("TypeError")

====
